---- MODULE Spec2Model ----
(***************************************************************************)
(* Model of the zflake ID generator (src/zflake.go) and of its base62      *)
(* codec (src/internal/base62/base62.go).                                  *)
(*                                                                         *)
(* The generator packs a time bucket, a per-bucket sequence number and a   *)
(* generator ID into one signed machine word whose top bit is reserved.    *)
(* The field widths and the time constants are scaled down so that every   *)
(* bucket and every sequence value is explored; the word is kept in two's  *)
(* complement of WordLen bits so that a shift into the reserved bit shows. *)
(***************************************************************************)
EXTENDS Integers, Naturals, Sequences, FiniteSets, TLC

(* ------------------------------ bounds --------------------------------- *)

\* Usable bits of an ID: 63 in zflake.go:37, scaled.
IDBits == 6

\* zflake.go:31 (38 there), scaled.
BitLenTim == 2

\* zflake.go:34 (13 there), scaled.
BitLenSeq == 2

\* zflake.go:28 (10ms in nanoseconds there), scaled to clock units.
BucketLen == 2

\* Number of goroutines calling NextFID concurrently.
NumProcs == 2

\* Bits of the unsigned word base62 works on: 64 in base62.go:28, scaled.
UintBits == 12

\* Longest string given to Decode.
MaxStrLen == 3

(* ---------------------------- arithmetic ------------------------------- *)

RECURSIVE Pow2(_)
Pow2(n) == IF n <= 0 THEN 1 ELSE 2 * Pow2(n - 1)

\* Width of the machine word holding an ID (int64 in the source).
WordLen == IDBits + 1

\* Go conversion to the signed word: two's complement wrap-around.
ToInt64(x) ==
    LET m == x % Pow2(WordLen)
    IN  IF m >= Pow2(WordLen - 1) THEN m - Pow2(WordLen) ELSE m

\* Go conversion to uint16 (type of Gen.seq and Gen.gid).
ToUint16(x) == x % 65536

\* Go integer division truncates toward zero.
TruncDiv(a, b) == IF a >= 0 THEN a \div b ELSE -((-a) \div b)

\* x << n on the signed word.
Shl(x, n) == ToInt64(x * Pow2(n))

\* x >> n on the signed word (arithmetic shift).
Shr(x, n) == x \div Pow2(n)

RECURSIVE BitsAnd(_, _, _)
BitsAnd(a, b, n) ==
    IF n = 0 THEN 0
    ELSE 2 * BitsAnd(a \div 2, b \div 2, n - 1)
         + (IF a % 2 = 1 /\ b % 2 = 1 THEN 1 ELSE 0)

RECURSIVE BitsOr(_, _, _)
BitsOr(a, b, n) ==
    IF n = 0 THEN 0
    ELSE 2 * BitsOr(a \div 2, b \div 2, n - 1)
         + (IF a % 2 = 1 \/ b % 2 = 1 THEN 1 ELSE 0)

\* a & b on the signed word.
And64(a, b) == ToInt64(BitsAnd(a % Pow2(WordLen), b % Pow2(WordLen), WordLen))

\* a | b on the signed word.
Or64(a, b) == ToInt64(BitsOr(a % Pow2(WordLen), b % Pow2(WordLen), WordLen))

(* ----------------------------- constants ------------------------------- *)

BitLenGID == IDBits - BitLenTim - BitLenSeq

DefaultGID == 0

\* zflake.go:41 (2020-01-01 in nanoseconds there), scaled: the clock's origin
\* lies one bucket before it.
DefaultEpoch == BucketLen

maskTim == Shl(Pow2(BitLenTim) - 1, BitLenSeq + BitLenGID)
maskSeq == Shl(Pow2(BitLenSeq) - 1, BitLenGID)
maskGID == Pow2(BitLenGID) - 1
seqMax == ToUint16(Pow2(BitLenSeq) - 1)
gidMax == ToUint16(Pow2(BitLenGID) - 1)

\* First bucket that does not fit the time field.
TimLimit == Pow2(BitLenTim)

(* --------------------------- model universe ---------------------------- *)

Procs == 1 .. NumProcs

\* Latest instant of the model: one bucket past the end of the time field,
\* counted from the default epoch.
MaxTime == DefaultEpoch + (TimLimit + 1) * BucketLen

\* Instants a clock can report.
Times == 0 .. MaxTime

\* Arguments given to the GID option (a uint16).
GidArgs == {0, gidMax, gidMax + 1, 65535}

\* Instants given to the Epoch option.
EpochArgs == {DefaultEpoch + BucketLen}

VARIABLES
    gen,       \* result of construction: "none", "ok", "nil", "gidpanic"
    injected,  \* TRUE when Gen.now is a clock set by the Clock option
    epoch,     \* Gen.epoch
    epochns,   \* Gen.epochns
    gid,       \* Gen.gid
    bucket,    \* Gen.bucket
    seq,       \* Gen.seq
    mx,        \* Gen.mx: TRUE when locked
    wall,      \* the instant time.Now reports
    ahead,     \* TRUE when the epoch was ahead of Gen.now() at construction
    pc,        \* position of each caller inside NextFID
    left,      \* remaining duration of the caller's time.Sleep
    cmp,       \* the call's clock bucket against gen.bucket: 1 later, 0 same, -1 earlier
    via,       \* the function each caller entered: "fid" NextFID, "sid" NextSID
    dec,       \* argument and result of a DecodeFID call
    cod,       \* argument and results of a base62 Encode or Decode call
    last,      \* outcome of the call that completed last
    issued,    \* number of IDs returned with the bucket of the last outcome
    phase      \* the calls completed so far.  "fresh": none.  "first": the
               \* first returned an ID without waiting and all since
               \* returned IDs of its bucket.  "over": after those, of which
               \* the last had seq = seqMax, one more waited and returned
               \* an ID of the next bucket.  "edge": one ID of bucket
               \* 2^T - 1, then one panic in bucket 2^T without waiting.
               \* "later": anything else.

vars == <<gen, injected, epoch, epochns, gid, bucket, seq, mx, wall, ahead,
          pc, left, cmp, via, dec, cod, last, issued, phase>>

genVars == <<gen, injected, epoch, epochns, gid, ahead, dec, cod>>

\* No call has completed.
NoOutcome ==
    [kind |-> "none", fid |-> 0, sid |-> <<>>, b |-> 0, s |-> 0, cmp |-> 0,
     waited |-> FALSE]

ghostVars == <<last, issued, phase>>

NoDec == [in |-> <<>>, out |-> <<>>]

NoCod == [op |-> "none", v |-> 0, str |-> <<>>, out |-> <<>>, fid |-> <<>>]

Init ==
    /\ gen = "none"
    /\ injected = FALSE
    /\ epoch = 0
    /\ epochns = 0
    /\ gid = 0
    /\ bucket = 0
    /\ seq = 0
    /\ mx = FALSE
    /\ wall = 0
    /\ ahead = FALSE
    /\ pc = [p \in Procs |-> "idle"]
    /\ left = [p \in Procs |-> 0]
    /\ cmp = [p \in Procs |-> 0]
    /\ via = [p \in Procs |-> "fid"]
    /\ dec = NoDec
    /\ cod = NoCod
    /\ last = NoOutcome
    /\ issued = 0
    /\ phase = "fresh"

(* ---------------------------- construction ----------------------------- *)

\* The option lists given to NewGen: every order of every choice of options.
OptNames == {"GID", "Epoch", "Clock"}

OptOrders ==
    {o \in UNION {[1 .. n -> OptNames] : n \in 0 .. 3} :
        \A i, j \in DOMAIN o : i # j => o[i] # o[j]}

\* GIDPanics with the comparison of line 62 written >=.
GIDPanics_incl(g) == g >= gidMax

\* GID(gid): TRUE when the option constructor panics.
GIDPanics(g) == g > gidMax

\* The closure returned by GID(gid), applied to the generator.
GID(flake, g) == [flake EXCEPT !.gid = g]

\* The closure returned by Epoch(epoch), applied to the generator.
Epoch(flake, e) ==
    [flake EXCEPT !.epoch = TruncDiv(DefaultEpoch, BucketLen), !.epochns = e]

\* The closure returned by Clock(clk), applied to the generator.
Clock(flake) == [flake EXCEPT !.injected = TRUE]

RECURSIVE ApplyOpts(_, _, _, _)
ApplyOpts(flake, order, g, e) ==
    IF order = <<>> THEN flake
    ELSE LET o == Head(order)
             f == CASE o = "GID"   -> GID(flake, g)
                    [] o = "Epoch" -> Epoch(flake, e)
                    [] o = "Clock" -> Clock(flake)
         IN  ApplyOpts(f, Tail(order), g, e)

\* FreshGen with seq left at its zero value instead of the sentinel of
\* line 103.
FreshGen_zero ==
    [gid |-> DefaultGID, seq |-> 0, bucket |-> 0,
     epoch |-> 0, epochns |-> 0, injected |-> FALSE]

\* The generator NewGen allocates before the options run.
FreshGen ==
    [gid |-> DefaultGID, seq |-> ToUint16(Pow2(BitLenSeq) - 1), bucket |-> 0,
     epoch |-> 0, epochns |-> 0, injected |-> FALSE]

\* NewGen after the options: the generator with its epoch settled, and
\* whether it is returned (t is what gen.now() reports).
NewGenCheck(f, t) ==
    IF f.epoch = 0
    THEN [flake |-> [f EXCEPT !.epoch = TruncDiv(DefaultEpoch, BucketLen),
                              !.epochns = DefaultEpoch],
          ok |-> TRUE]
    ELSE [flake |-> f, ok |-> ~(f.epochns > t)]

\* NewGen(opts...) with the options in the given order; g and e are the
\* arguments of GID and Epoch, t the instant of the construction: what the
\* injected clock reports then, or the wall clock when none is injected.
NewGen(order, g, e, t) ==
    /\ gen = "none"
    /\ LET hasGID == \E i \in DOMAIN order : order[i] = "GID"
           f == ApplyOpts(FreshGen, order, g, e)
           r == NewGenCheck(f, t)
       IN  IF hasGID /\ GIDPanics(g)
           THEN /\ gen' = "gidpanic"
                /\ UNCHANGED <<injected, epoch, epochns, gid, bucket, seq,
                               wall, ahead>>
           ELSE /\ gen' = IF r.ok THEN "ok" ELSE "nil"
                /\ injected' = r.flake.injected
                /\ epoch' = r.flake.epoch
                /\ epochns' = r.flake.epochns
                /\ gid' = r.flake.gid
                /\ bucket' = r.flake.bucket
                /\ seq' = r.flake.seq
                /\ wall' = IF r.flake.injected THEN wall ELSE t
                /\ ahead' = (r.flake.epochns > t)
    /\ UNCHANGED <<mx, pc, left, cmp, via, ghostVars, dec, cod>>

(* ------------------------------- base62 -------------------------------- *)

\* base62.go:10, one character per element.
alpha ==
    <<"0", "1", "2", "3", "4", "5", "6", "7", "8", "9",
      "A", "B", "C", "D", "E", "F", "G", "H", "I", "J", "K", "L", "M",
      "N", "O", "P", "Q", "R", "S", "T", "U", "V", "W", "X", "Y", "Z",
      "a", "b", "c", "d", "e", "f", "g", "h", "i", "j", "k", "l", "m",
      "n", "o", "p", "q", "r", "s", "t", "u", "v", "w", "x", "y", "z">>

\* Number of characters in the alphabet.
base == 62

\* Go conversion to the unsigned word: wrap-around.
ToUint64(x) == x % Pow2(UintBits)

\* alphabetMap as filled by init(): character to index, from 0.
alphabetMap ==
    [c \in {alpha[i] : i \in 1 .. Len(alpha)} |->
        (CHOOSE i \in 1 .. Len(alpha) : alpha[i] = c) - 1]

\* Number of base62 digits of id >= 1.
RECURSIVE Digits(_)
Digits(id) == IF id < base THEN 1 ELSE 1 + Digits(id \div base)

RECURSIVE PowBase(_)
PowBase(k) == IF k <= 0 THEN 1 ELSE base * PowBase(k - 1)

\* Bits of the significand of a float64 (line 32 converts id to float64).
FloatBits == 53

\* Number of binary digits of x >= 0.
RECURSIVE BitLen(_)
BitLen(x) == IF x = 0 THEN 0 ELSE 1 + BitLen(x \div 2)

\* float64(id) of line 32: id itself when it has no more than FloatBits
\* binary digits, else the nearest value with FloatBits significant bits, a
\* tie going to the even significand.
ToFloat64(id) ==
    IF BitLen(id) <= FloatBits THEN id
    ELSE LET ulp == Pow2(BitLen(id) - FloatBits)
             lo  == (id \div ulp) * ulp
             r   == id - lo
         IN  IF 2 * r < ulp THEN lo
             ELSE IF 2 * r > ulp THEN lo + ulp
             ELSE IF (lo \div ulp) % 2 = 0 THEN lo ELSE lo + ulp

\* How far below base^k a float64 x can be with the float64 quotient
\* math.Log(x)/math.Log(base) of line 32 already k: the quotient is rounded
\* up to 9 for the float64 values from 62^9 - 70 and to 10 for those from
\* 62^10 - 512, and stays below k up to base^k for every other power of
\* base in the 64-bit word; from base^k on it is never below k.
QuotSlack(k) == IF k = 9 THEN 70 ELSE IF k = 10 THEN 512 ELSE 0

\* int(math.Log(x)/math.Log(base)) as float64 arithmetic gives it, for a
\* float64 x >= 1: the exact integer part, or one more where the quotient
\* has been rounded up to the next integer.
LogQuot(x) ==
    LET k == Digits(x)
    IN  IF PowBase(k) - x <= QuotSlack(k) THEN k ELSE k - 1

\* Line 32 without the "+ 1".
LogLen_floor(id) == LogQuot(ToFloat64(id))

\* int(math.Log(float64(id))/math.Log(base) + 1), line 32, for id >= 1: the
\* number of base62 digits of id, or one more than that for the ids just
\* below 62^9 and 62^10, where the conversion or the quotient rounds up.
LogLen(id) == LogQuot(ToFloat64(id)) + 1

\* The loop of lines 38-42: buf is indexed from 1 here.
RECURSIVE EncodeLoop(_, _, _)
EncodeLoop(buf, q, i) ==
    IF i < 0 THEN buf
    ELSE EncodeLoop([buf EXCEPT ![i + 1] = alpha[(q % base) + 1]],
                    q \div base, i - 1)

\* base62.Encode(id): the string as a sequence of characters.
Encode(id) ==
    IF id = 0 THEN <<"0">>
    ELSE LET n == LogLen(id)
             buf == [i \in 1 .. n |-> ""]
         IN  EncodeLoop([buf EXCEPT ![n] = alpha[(id % base) + 1]],
                        id \div base, n - 2)

\* Decode keeping what it has accumulated when it meets a character that
\* is not in the alphabet.
RECURSIVE DecodeLoop_partial(_, _, _)
DecodeLoop_partial(str, i, res) ==
    IF i > Len(str) THEN [val |-> res, err |-> "nil"]
    ELSE IF str[i] \notin DOMAIN alphabetMap
         THEN [val |-> res, err |-> "ErrInvalidSID"]
         ELSE DecodeLoop_partial(str, i + 1,
                                 ToUint64(base * res + alphabetMap[str[i]]))

\* The loop of lines 49-57 from character i on, res accumulated so far.
RECURSIVE DecodeLoop(_, _, _)
DecodeLoop(str, i, res) ==
    IF i > Len(str) THEN [val |-> res, err |-> "nil"]
    ELSE IF str[i] \notin DOMAIN alphabetMap
         THEN [val |-> 0, err |-> "ErrInvalidSID"]
         ELSE DecodeLoop(str, i + 1,
                         ToUint64(base * res + alphabetMap[str[i]]))

\* base62.Decode(str): value and error.
Decode(str) == DecodeLoop(str, 1, 0)

\* EncodeFID(fid): the ID goes to Encode as an unsigned word.
EncodeFID(fid) == Encode(ToUint64(fid))

\* DecodeSID(sid), lines 192-194: Decode's error, and Decode's unsigned value
\* as the int64 of the declared result.
DecodeSID(sid) ==
    LET r == Decode(sid)
    IN  [val |-> ToInt64(r.val), err |-> r.err]

(* ------------------------------ NextFID -------------------------------- *)

\* gen.bucketsSince(tim)
bucketsSince(t) == TruncDiv(t - epochns, BucketLen)

\* ComposeFID without the generator ID of line 150.
ComposeFID_nogid(b, s, g) ==
    Or64(Shl(b, BitLenSeq + BitLenGID), Shl(s, BitLenGID))

\* The value NextFID returns (zflake.go:148-150).
ComposeFID(b, s, g) ==
    Or64(Or64(Shl(b, BitLenSeq + BitLenGID), Shl(s, BitLenGID)), g)

\* The instants gen.now() can report: anything when the clock is injected,
\* the wall clock otherwise.
Readings == IF injected THEN Times ELSE {wall}

\* Calls are made while the generator's bucket is at most 2^T and, on the
\* wall clock, while the wait a call may need ends by MaxTime.
MayCall ==
    /\ bucket <= TimLimit
    /\ injected \/ epochns + (bucket + 1) * BucketLen <= MaxTime

\* A goroutine calls NextFID.
Call(p) ==
    /\ gen = "ok"
    /\ pc[p] = "idle"
    /\ MayCall
    /\ pc' = [pc EXCEPT ![p] = "lock"]
    /\ UNCHANGED <<genVars, bucket, seq, mx, wall, left, cmp, via, ghostVars>>

\* A goroutine calls NextSID, which calls NextFID.
CallSID(p) ==
    /\ gen = "ok"
    /\ pc[p] = "idle"
    /\ MayCall
    /\ pc' = [pc EXCEPT ![p] = "lock"]
    /\ via' = [via EXCEPT ![p] = "sid"]
    /\ UNCHANGED <<genVars, bucket, seq, mx, wall, left, cmp, ghostVars>>

\* Lock that does not wait for the mutex to be free.
Lock_nowait(p) ==
    /\ pc[p] = "lock"
    /\ mx' = TRUE
    /\ pc' = [pc EXCEPT ![p] = "body"]
    /\ UNCHANGED <<genVars, bucket, seq, wall, left, cmp, via, ghostVars>>

\* gen.mx.Lock()
Lock(p) ==
    /\ pc[p] = "lock"
    /\ ~mx
    /\ mx' = TRUE
    /\ pc' = [pc EXCEPT ![p] = "body"]
    /\ UNCHANGED <<genVars, bucket, seq, wall, left, cmp, via, ghostVars>>

\* advance with the comparison of line 129 written <=: a call in the current
\* bucket restarts the sequence.
advance_restart(b, s, n) ==
    IF b <= n
    THEN [bucket |-> n, seq |-> 0, sleep |-> FALSE]
    ELSE LET s1 == ToUint16(s + 1)
         IN  IF s1 > seqMax
             THEN [bucket |-> b + 1, seq |-> 0, sleep |-> TRUE]
             ELSE [bucket |-> b, seq |-> s1, sleep |-> FALSE]

\* advance with the comparison of line 129 written #: the bucket follows a
\* clock that went backwards.
advance_follow(b, s, n) ==
    IF b # n
    THEN [bucket |-> n, seq |-> 0, sleep |-> FALSE]
    ELSE LET s1 == ToUint16(s + 1)
         IN  IF s1 > seqMax
             THEN [bucket |-> b + 1, seq |-> 0, sleep |-> TRUE]
             ELSE [bucket |-> b, seq |-> s1, sleep |-> FALSE]

\* advance without line 131: a new bucket goes on with the old sequence
\* number.
advance_noreset(b, s, n) ==
    IF b < n
    THEN [bucket |-> n, seq |-> s, sleep |-> FALSE]
    ELSE LET s1 == ToUint16(s + 1)
         IN  IF s1 > seqMax
             THEN [bucket |-> b + 1, seq |-> 0, sleep |-> TRUE]
             ELSE [bucket |-> b, seq |-> s1, sleep |-> FALSE]

\* advance without the test of line 134: the sequence number grows past
\* seqMax and no call waits.
advance_unbounded(b, s, n) ==
    IF b < n
    THEN [bucket |-> n, seq |-> 0, sleep |-> FALSE]
    ELSE [bucket |-> b, seq |-> ToUint16(s + 1), sleep |-> FALSE]

\* zflake.go:129-142: the new (bucket, seq) for a clock bucket n, and whether
\* gen.sleep is called.
advance(b, s, n) ==
    IF b < n
    THEN [bucket |-> n, seq |-> 0, sleep |-> FALSE]
    ELSE LET s1 == ToUint16(s + 1)
         IN  IF s1 > seqMax
             THEN [bucket |-> b + 1, seq |-> 0, sleep |-> TRUE]
             ELSE [bucket |-> b, seq |-> s1, sleep |-> FALSE]

\* The comparison of line 129 for a clock bucket n: 1 when the clock is in a
\* later bucket than the generator, 0 in the same, -1 in an earlier one.
Compare(b, n) == IF n > b THEN 1 ELSE IF n = b THEN 0 ELSE -1

\* OverLimit with the comparison of line 144 written ==.
OverLimit_exact(b) == b = Pow2(BitLenTim)

\* OverLimit with the comparison of line 144 written >.
OverLimit_off(b) == b > Pow2(BitLenTim)

\* OverLimit with the check of line 144 left out.
OverLimit_never(b) == FALSE

\* zflake.go:144: the time field is used up.
OverLimit(b) == b >= Pow2(BitLenTim)

\* zflake.go:144-150: what a call ends with when the generator holds (b, s),
\* c being its comparison of line 129 and w whether it went through
\* gen.sleep.
Outcome(b, s, c, w) ==
    IF OverLimit(b)
    THEN [kind |-> "panic", fid |-> 0, sid |-> <<>>, b |-> b, s |-> s,
          cmp |-> c, waited |-> w]
    ELSE [kind |-> "id", fid |-> ComposeFID(b, s, gid), sid |-> <<>>,
          b |-> b, s |-> s, cmp |-> c, waited |-> w]

\* The ghosts once a call has completed with outcome o.
Record(o) ==
    /\ last' = o
    /\ issued' = IF last'.kind # "id" THEN 0
                 ELSE IF last.kind = "id" /\ last.b = last'.b THEN issued + 1
                 ELSE 1
    /\ phase' =
          CASE phase = "fresh" /\ last'.kind = "id" /\ ~last'.waited -> "first"
            [] phase = "first" /\ last'.kind = "id" /\ last'.b = last.b
                 -> "first"
            [] phase = "first" /\ last'.kind = "id" /\ last'.waited
                 /\ last.s = seqMax /\ last'.b = last.b + 1 -> "over"
            [] phase = "first" /\ last'.kind = "panic" /\ ~last'.waited
                 /\ last.s = 0 /\ last.b = Pow2(BitLenTim) - 1
                 /\ last'.b = Pow2(BitLenTim) -> "edge"
            [] OTHER -> "later"

\* The unlock written at the end of NextFID instead of deferred: a panic
\* leaves the mutex locked.
Unlock_atEnd(kind) == kind = "panic"

\* The deferred gen.mx.Unlock() of line 126: the mutex once NextFID has been
\* left by a return or by a panic.
Unlock(kind) == FALSE

\* NextSID returning the encoding of the ID without its generator ID.
NextSID_nogid(fid) == Encode(ToUint64(Shr(fid, BitLenGID)))

\* zflake.go:155: what NextSID returns when the NextFID it calls returned
\* fid.
NextSID(fid) == Encode(ToUint64(fid))

\* The caller leaves NextFID with outcome o, through NextSID when that is
\* what it had called: an ID is encoded, a panic goes on to the caller.
Leave(p, o) ==
    /\ Record(IF via[p] = "sid" /\ o.kind = "id"
              THEN [o EXCEPT !.sid = NextSID(o.fid)]
              ELSE o)
    /\ mx' = Unlock(last'.kind)
    /\ pc' = [pc EXCEPT ![p] = "idle"]
    /\ left' = [left EXCEPT ![p] = 0]
    /\ cmp' = [cmp EXCEPT ![p] = 0]
    /\ via' = [via EXCEPT ![p] = "fid"]

\* zflake.go:128-150 for a call that does not run out of sequence numbers:
\* between reading the clock and leaving, the call holds the lock and reads
\* nothing else that changes.
Body(p, t) ==
    /\ pc[p] = "body"
    /\ t \in Readings
    /\ LET n == bucketsSince(t)
           a == advance(bucket, seq, n)
       IN  /\ ~a.sleep
           /\ bucket' = a.bucket
           /\ seq' = a.seq
           /\ Leave(p, Outcome(bucket', seq', Compare(bucket, n), FALSE))
    /\ UNCHANGED <<genVars, wall>>

\* zflake.go:128-141 for a call that runs out of sequence numbers, up to
\* the call of gen.sleep.
Overflow(p, t) ==
    /\ pc[p] = "body"
    /\ t \in Readings
    /\ LET n == bucketsSince(t)
           a == advance(bucket, seq, n)
       IN  /\ a.sleep
           /\ bucket' = a.bucket
           /\ seq' = a.seq
           /\ cmp' = [cmp EXCEPT ![p] = Compare(bucket, n)]
    /\ pc' = [pc EXCEPT ![p] = "sleep"]
    /\ UNCHANGED <<genVars, mx, wall, left, via, ghostVars>>

\* gen.sleep that does not wait.
sleepFor_nowait(t) == 0

\* sleepFor aiming at the start of the bucket that ran out of sequence
\* numbers instead of the one gen.bucket now names.
sleepFor_prev(t) == (epochns + (bucket - 1) * BucketLen) - t

\* The duration gen.sleep hands to time.Sleep, t being gen.now().
sleepFor(t) == (epochns + bucket * BucketLen) - t

\* gen.sleep up to the call of time.Sleep.
SleepStart(p, t) ==
    /\ pc[p] = "sleep"
    /\ t \in Readings
    /\ left' = [left EXCEPT ![p] = IF sleepFor(t) > 0 THEN sleepFor(t) ELSE 0]
    /\ pc' = [pc EXCEPT ![p] = "sleeping"]
    /\ UNCHANGED <<genVars, bucket, seq, mx, wall, cmp, via, ghostVars>>

\* time.Sleep returns once the duration has passed, and lines 144-150 end
\* the call.
Wake(p) ==
    /\ pc[p] = "sleeping"
    /\ left[p] = 0
    /\ Leave(p, Outcome(bucket, seq, cmp[p], TRUE))
    /\ UNCHANGED <<genVars, bucket, seq, wall>>

(* ------------------------------ DecodeFID ------------------------------ *)

\* DecodeFID with line 175 read as fid & (maskSeq >> BitLenGID).
DecodeFID_prec(fid) ==
    [fid |-> fid,
     msb |-> Shr(fid, WordLen - 1),
     tim |-> Shr(fid, BitLenSeq + BitLenGID),
     seq |-> And64(fid, Shr(maskSeq, BitLenGID)),
     gid |-> And64(fid, maskGID)]

\* DecodeFID(fid): the map it returns, as a record.
DecodeFID(fid) ==
    [fid |-> fid,
     msb |-> Shr(fid, WordLen - 1),
     tim |-> Shr(fid, BitLenSeq + BitLenGID),
     seq |-> Shr(And64(fid, maskSeq), BitLenGID),
     gid |-> And64(fid, maskGID)]

\* The (bucket, seq, gid) triples that fit the field widths.
Triples ==
    (0 .. Pow2(BitLenTim) - 1) \X (0 .. Pow2(BitLenSeq) - 1)
        \X (0 .. Pow2(BitLenGID) - 1)

\* DecodeFID is applied to the ID composed from the chosen triple.
DecodeStep ==
    /\ dec.in # <<>>
    /\ dec.out = <<>>
    /\ dec' = [dec EXCEPT !.out =
                  DecodeFID(ComposeFID(dec.in[1], dec.in[2], dec.in[3]))]
    /\ UNCHANGED <<gen, injected, epoch, epochns, gid, bucket, seq, mx, wall,
                   ahead, pc, left, cmp, via, cod, ghostVars>>

InitDecode ==
    /\ gen = "none"
    /\ injected = FALSE
    /\ epoch = 0
    /\ epochns = 0
    /\ gid = 0
    /\ bucket = 0
    /\ seq = 0
    /\ mx = FALSE
    /\ wall = 0
    /\ ahead = FALSE
    /\ pc = [p \in Procs |-> "idle"]
    /\ left = [p \in Procs |-> 0]
    /\ cmp = [p \in Procs |-> 0]
    /\ via = [p \in Procs |-> "fid"]
    /\ last = NoOutcome
    /\ issued = 0
    /\ phase = "fresh"
    /\ cod = NoCod
    /\ dec \in [in : Triples, out : {<<>>}]

NextDecode == DecodeStep

SpecDecode == InitDecode /\ [][NextDecode]_vars

(* --------------------------- base62 calls ------------------------------ *)

\* Values given to Encode.
UintVals == 0 .. Pow2(UintBits) - 1

\* Characters of the strings given to Decode: some of the alphabet, some not.
Chars == {"0", "1", "Z", "z", "%", "-"}

RECURSIVE StrsOfLen(_)
StrsOfLen(n) ==
    IF n = 0 THEN {<<>>}
    ELSE {Append(s, c) : s \in StrsOfLen(n - 1), c \in Chars}

\* Strings given to Decode.
Strs == UNION {StrsOfLen(n) : n \in 0 .. MaxStrLen}

\* Encode is applied to the chosen value.
EncodeStep ==
    /\ cod.op = "enc"
    /\ cod.str = <<>>
    /\ cod' = [cod EXCEPT !.str = Encode(cod.v)]
    /\ UNCHANGED <<gen, injected, epoch, epochns, gid, bucket, seq, mx, wall,
                   ahead, pc, left, cmp, via, dec, ghostVars>>

\* base62.Decode is applied to the chosen string or to the string Encode
\* made.
Base62DecodeStep ==
    /\ cod.out = <<>>
    /\ \/ cod.op = "dec"
       \/ cod.op = "enc" /\ cod.str # <<>>
    /\ cod' = [cod EXCEPT !.out = Decode(cod.str)]
    /\ UNCHANGED <<gen, injected, epoch, epochns, gid, bucket, seq, mx, wall,
                   ahead, pc, left, cmp, via, dec, ghostVars>>

\* DecodeSID is applied to the chosen string or to the string Encode made.
DecodeSIDStep ==
    /\ cod.fid = <<>>
    /\ \/ cod.op = "dec"
       \/ cod.op = "enc" /\ cod.str # <<>>
    /\ cod' = [cod EXCEPT !.fid = DecodeSID(cod.str)]
    /\ UNCHANGED <<gen, injected, epoch, epochns, gid, bucket, seq, mx, wall,
                   ahead, pc, left, cmp, via, dec, ghostVars>>

InitCodec ==
    /\ gen = "none"
    /\ injected = FALSE
    /\ epoch = 0
    /\ epochns = 0
    /\ gid = 0
    /\ bucket = 0
    /\ seq = 0
    /\ mx = FALSE
    /\ wall = 0
    /\ ahead = FALSE
    /\ pc = [p \in Procs |-> "idle"]
    /\ left = [p \in Procs |-> 0]
    /\ cmp = [p \in Procs |-> 0]
    /\ via = [p \in Procs |-> "fid"]
    /\ dec = NoDec
    /\ last = NoOutcome
    /\ issued = 0
    /\ phase = "fresh"
    /\ cod \in [op : {"enc"}, v : UintVals, str : {<<>>}, out : {<<>>},
                fid : {<<>>}]
               \cup [op : {"dec"}, v : {0}, str : Strs, out : {<<>>},
                     fid : {<<>>}]

NextCodec == EncodeStep \/ Base62DecodeStep \/ DecodeSIDStep

SpecCodec == InitCodec /\ [][NextCodec]_vars

(* ------------------------------- time ---------------------------------- *)

\* Tick that leaves the sleeps as long as they were.
Tick_frozen ==
    /\ gen = "ok"
    /\ \/ injected /\ wall' = wall
          /\ \E p \in Procs : pc[p] = "sleeping" /\ left[p] > 0
       \/ ~injected /\ wall < MaxTime /\ wall' = wall + 1
    /\ UNCHANGED <<genVars, bucket, seq, mx, pc, left, cmp, via, ghostVars>>

\* One unit of time passes for a generator: sleeps get shorter and the wall
\* clock moves.  Nothing reads the wall clock of a generator with an
\* injected clock, so it is left alone then.
Tick ==
    /\ gen = "ok"
    /\ \/ injected /\ wall' = wall
          /\ \E p \in Procs : pc[p] = "sleeping" /\ left[p] > 0
       \/ ~injected /\ wall < MaxTime /\ wall' = wall + 1
    /\ left' = [p \in Procs |->
                  IF pc[p] = "sleeping" /\ left[p] > 0 THEN left[p] - 1
                  ELSE left[p]]
    /\ UNCHANGED <<genVars, bucket, seq, mx, pc, cmp, via, ghostVars>>

Next ==
    \/ \E o \in OptOrders, g \in GidArgs, e \in EpochArgs, t \in Times :
          NewGen(o, g, e, t)
    \/ \E p \in Procs : Call(p)
    \/ \E p \in Procs : Lock(p)
    \/ \E p \in Procs, t \in Times : Body(p, t)
    \/ \E p \in Procs, t \in Times : Overflow(p, t)
    \/ \E p \in Procs, t \in Times : SleepStart(p, t)
    \/ \E p \in Procs : Wake(p)
    \/ Tick

Spec == Init /\ [][Next]_vars

\* Goroutine p takes the next step of the NextFID call it is in: it leaves
\* line 128 (Body or Overflow), enters time.Sleep (SleepStart), or comes
\* back from a sleep that has run out (Wake).  These are the steps of Next
\* that change pc[p] from such a position, and one of them is possible at
\* each.
Moves(p) ==
    /\ \/ pc[p] \in {"body", "sleep"}
       \/ pc[p] = "sleeping" /\ left[p] = 0
    /\ \E q \in {"idle", "sleep", "sleeping"} \ {pc[p]} :
          pc' = [pc EXCEPT ![p] = q]

\* Scheduling: time passes, a goroutine inside NextFID takes its next step,
\* and the mutex is fair: a goroutine that keeps finding it free is not
\* passed over for ever.  Nothing makes a goroutine call.
Fairness ==
    /\ WF_vars(Tick)
    /\ \A p \in Procs : SF_vars(Lock(p))
    /\ \A p \in Procs : WF_pc(Moves(p))

\* The option lists without GID: the generator ID has no part in whether
\* a call ends.
LiveOrders == {o \in OptOrders : \A i \in DOMAIN o : o[i] # "GID"}

\* The generator with callers of NextFID, constructed with DefaultGID.
NextLive ==
    \/ \E o \in LiveOrders, e \in EpochArgs, t \in Times :
          NewGen(o, DefaultGID, e, t)
    \/ \E p \in Procs : Call(p)
    \/ \E p \in Procs : Lock(p)
    \/ \E p \in Procs, t \in Times : Body(p, t)
    \/ \E p \in Procs, t \in Times : Overflow(p, t)
    \/ \E p \in Procs, t \in Times : SleepStart(p, t)
    \/ \E p \in Procs : Wake(p)
    \/ Tick

SpecLive == Init /\ [][NextLive]_vars /\ Fairness

\* The goroutines that call NextSID; the others call NextFID.
SidProcs == {p \in Procs : p % 2 = 0}

\* The generator with callers of NextFID and callers of NextSID.
NextWithSID ==
    \/ \E o \in OptOrders, g \in GidArgs, e \in EpochArgs, t \in Times :
          NewGen(o, g, e, t)
    \/ \E p \in Procs \ SidProcs : Call(p)
    \/ \E p \in SidProcs : CallSID(p)
    \/ \E p \in Procs : Lock(p)
    \/ \E p \in Procs, t \in Times : Body(p, t)
    \/ \E p \in Procs, t \in Times : Overflow(p, t)
    \/ \E p \in Procs, t \in Times : SleepStart(p, t)
    \/ \E p \in Procs : Wake(p)
    \/ Tick

SpecSID == Init /\ [][NextWithSID]_vars

(* ------------------------------ properties ----------------------------- *)

\* A call leaves NextFID, by a return or by a panic.
Finishes(p) == pc[p] \in {"body", "sleeping"} /\ pc'[p] = "idle"

\* Once a call has panicked every later call panics: no ID follows a panic.
PanicIsFinal ==
    \A p \in Procs :
        (Finishes(p) /\ last.kind = "panic") => last'.kind = "panic"

\* C1: the IDs one generator has returned are pairwise distinct, and so are
\* their (bucket, seq) pairs, whatever the callers and the clock did: every
\* ID returned is a larger number than the ID returned before it, with
\* another (bucket, seq) pair, and no ID is returned after a panic.
C1_Unique ==
    [][/\ PanicIsFinal
       /\ \A p \in Procs :
             (Finishes(p) /\ last.kind = "id" /\ last'.kind = "id") =>
                 /\ last'.fid > last.fid
                 /\ <<last'.b, last'.s>> # <<last.b, last.s>>]_vars

\* A generator with an injected clock returned a second ID of one bucket on
\* a clock that stood still, while another caller waits for the lock.
C1_Witness ==
    /\ injected
    /\ last.kind = "id"
    /\ last.s >= 1
    /\ last.cmp = 0
    /\ \E p \in Procs : pc[p] = "lock"

\* C2: in the order the calls held the lock, the bucket of the returned IDs
\* never decreases and, within one bucket, seq strictly increases, for any
\* clock readings.
C2_Monotonic ==
    [][\A p \in Procs :
          (Finishes(p) /\ last.kind = "id" /\ last'.kind = "id") =>
              /\ last.b <= last'.b
              /\ (last.b = last'.b => last.s < last'.s)]_vars

\* A call that read a clock behind the generator's bucket returned the
\* next ID of that bucket.
C2_Witness ==
    /\ last.kind = "id"
    /\ last.cmp = -1
    /\ ~last.waited
    /\ last.s >= 1
    /\ last.b >= 2

\* The step of caller p from line 128 is the one made with the clock
\* reading t: (bucket, seq) moves as lines 129-141 move it for t, and the
\* comparison of line 129 kept for the call is the one of t.
ReadAt(p, t) ==
    LET n == bucketsSince(t)
        a == advance(bucket, seq, n)
    IN  /\ bucket' = a.bucket
        /\ seq' = a.seq
        /\ a.sleep <=> pc'[p] = "sleep"
        /\ Compare(bucket, n) = (IF a.sleep THEN cmp'[p] ELSE last'.cmp)

\* The first call of a fresh generator that reads its clock, the wall clock
\* or an injected one, in a bucket b >= 1 returns (b, 0), and each call that
\* ends having read the clock still in b returns the next seq of b, all
\* without going through gen.sleep; seq values were left for each of them.
FillsBucket ==
    \A p \in Procs :
        (Finishes(p) /\ pc[p] = "body") =>
            \A t \in Readings :
                ReadAt(p, t) =>
                    /\ (/\ phase = "fresh"
                        /\ bucketsSince(t) \in 1 .. Pow2(BitLenTim) - 1) =>
                          /\ last'.kind = "id"
                          /\ last'.b = bucketsSince(t)
                          /\ last'.s = 0
                          /\ ~last'.waited
                    /\ (phase = "first" /\ bucketsSince(t) = last.b) =>
                          /\ last.s < seqMax
                          /\ last'.kind = "id"
                          /\ last'.b = last.b
                          /\ last'.s = last.s + 1
                          /\ ~last'.waited

\* The call after the 2^S that filled bucket b, made with the clock still
\* read in b, returns nothing yet: it moves the generator to (b+1, 0) and
\* goes to gen.sleep.
AdvancesBeforeWait ==
    \A p \in Procs :
        (/\ pc[p] = "body"
         /\ pc'[p] # "body"
         /\ phase = "first"
         /\ last.s = seqMax) =>
            \A t \in Readings :
                (ReadAt(p, t) /\ bucketsSince(t) = last.b) =>
                    /\ pc'[p] = "sleep"
                    /\ bucket' = last.b + 1
                    /\ seq' = 0
                    /\ last' = last

\* The call that has moved the generator to (b+1, 0) and reads the clock
\* still in b blocks in time.Sleep for what remains from that reading to the
\* start of bucket b+1, so that a clock that goes on during the sleep has
\* reached that start when the sleep ends.
BlocksForTheRest ==
    \A p \in Procs :
        (pc[p] = "sleep" /\ pc'[p] = "sleeping" /\ phase = "first") =>
            \A t \in Readings :
                (SleepStart(p, t) /\ bucketsSince(t) = last.b) =>
                    /\ left'[p] = epochns + (last.b + 1) * BucketLen - t
                    /\ left'[p] > 0

\* A call that went through gen.sleep leaves NextFID only when its sleep is
\* over and, on the wall clock, when the clock has reached the start of
\* gen.bucket.
WaitedUntilStart ==
    \A p \in Procs :
        (Finishes(p) /\ pc[p] = "sleeping") =>
            /\ left[p] = 0
            /\ last'.waited
            /\ ~injected => wall >= epochns + bucket * BucketLen

\* gen.seq and the seq of a returned ID stay within the field.
SeqInField ==
    /\ gen = "ok" => seq \in 0 .. seqMax
    /\ last.kind = "id" => last.s \in 0 .. seqMax

\* C3 as stated: for every bucket b >= 1 the (2^S+1)-th call returns the ID
\* (b+1, 0) after the wait.
C3_AsStated ==
    /\ []SeqInField
    /\ [][/\ FillsBucket
          /\ AdvancesBeforeWait
          /\ BlocksForTheRest
          /\ WaitedUntilStart
          /\ \A p \in Procs :
                (/\ Finishes(p)
                 /\ pc[p] = "sleeping"
                 /\ phase = "first") =>
                    /\ last'.kind = "id"
                    /\ last'.b = last.b + 1
                    /\ last'.s = 0]_vars

\* C3 amended: with the clock, the wall clock or an injected one, held in
\* one bucket b >= 1, a fresh generator's first 2^S calls return (b, 0) ..
\* (b, 2^S-1) without waiting; the next call moves the generator to
\* (b+1, 0), blocks until the start of bucket b+1 and only then returns the
\* ID (b+1, 0), except that for b = 2^T - 1 it returns no ID and ends with
\* the time-limit panic; seq never leaves its field.
C3_Throttle ==
    /\ []SeqInField
    /\ [][/\ FillsBucket
          /\ AdvancesBeforeWait
          /\ BlocksForTheRest
          /\ WaitedUntilStart
          /\ \A p \in Procs :
                (/\ Finishes(p)
                 /\ pc[p] = "sleeping"
                 /\ phase = "first") =>
                    /\ last'.b = last.b + 1
                    /\ last'.s = 0
                    /\ last'.kind = (IF last.b + 1 < Pow2(BitLenTim)
                                     THEN "id" ELSE "panic")]_vars

\* With an injected clock read in one bucket throughout, the call after
\* the 2^S that filled that bucket has waited and returned the first ID of
\* the next bucket.
C3_Witness ==
    /\ injected
    /\ phase = "over"
    /\ last.kind = "id"
    /\ last.waited
    /\ last.cmp = 0
    /\ last.s = 0
    /\ issued = 1

\* A returned ID has a bucket below 2^T, which is its time field, and a
\* panic found the bucket at or above 2^T.
OutcomeInRange ==
    /\ last.kind = "id" =>
          /\ last.b \in 0 .. Pow2(BitLenTim) - 1
          /\ DecodeFID(last.fid).tim = last.b
    /\ last.kind = "panic" => last.b >= Pow2(BitLenTim)

\* A call that leaves the generator's bucket at or above 2^T panics, any
\* other returns an ID.
PanicsWhenOver ==
    \A p \in Procs :
        Finishes(p) =>
            /\ last'.b = bucket'
            /\ last'.s = seq'
            /\ last'.kind = (IF bucket' >= Pow2(BitLenTim)
                             THEN "panic" ELSE "id")

\* A call goes through gen.sleep only when its clock is not in a later
\* bucket than the generator; a call whose clock is in a later bucket takes
\* that bucket and leaves without waiting: when it is the last bucket the
\* call returns its first ID, and when it is bucket 2^T, after an ID of the
\* last bucket, the call panics.
LastBucketThenOver ==
    \A p \in Procs :
        /\ (pc[p] = "body" /\ pc'[p] = "sleep") => cmp'[p] # 1
        /\ (Finishes(p) /\ last'.cmp = 1) =>
              /\ pc[p] = "body"
              /\ ~last'.waited
              /\ last'.b = bucket'
              /\ bucket' > bucket
              /\ bucket' = Pow2(BitLenTim) - 1 =>
                    last'.kind = "id" /\ last'.s = 0
              /\ (/\ bucket' = Pow2(BitLenTim)
                  /\ last.kind = "id"
                  /\ last.b = Pow2(BitLenTim) - 1) =>
                    last'.kind = "panic"

\* C4: no returned ID has a bucket >= 2^T; a call that leaves the bucket at
\* or above 2^T, from the clock or from a sequence overflow, panics; a clock
\* in the last bucket and then in the following one gives an ID and then a
\* panic.
C4_Exhaustion ==
    /\ []OutcomeInRange
    /\ [][PanicsWhenOver]_vars
    /\ [][LastBucketThenOver]_vars

\* The first call returned an ID of the last bucket and the second, having
\* read the bucket after it, panicked without waiting.
C4_Witness ==
    /\ phase = "edge"
    /\ last.kind = "panic"
    /\ last.b = Pow2(BitLenTim)
    /\ last.cmp = 1
    /\ ~last.waited

\* C5: the reserved top bit of every returned ID is 0: the ID is a
\* non-negative word and DecodeFID reports msb = 0.
C5_MsbZero ==
    last.kind = "id" =>
        /\ last.fid >= 0
        /\ last.fid < Pow2(IDBits)
        /\ DecodeFID(last.fid).msb = 0

\* The ID with every field at its maximum was returned by a generator whose
\* clock read an instant before the epoch when it was constructed.
C5_Witness ==
    /\ ahead
    /\ gid = Pow2(BitLenGID) - 1
    /\ last.kind = "id"
    /\ last.b = Pow2(BitLenTim) - 1
    /\ last.s = Pow2(BitLenSeq) - 1

\* Positions of NextFID at which the caller holds the lock.
Crit == {"body", "sleep", "sleeping"}

InCrit == {p \in Procs : pc[p] \in Crit}

\* At most one call is between Lock and Unlock, and the mutex is locked
\* while one is.
OneInCrit == Cardinality(InCrit) <= 1 /\ (InCrit # {} => mx)

\* Only a call between Lock and Unlock changes (bucket, seq) or returns.
OnlyInCrit ==
    <<bucket, seq, last>> # <<bucket', seq', last'>> =>
        (gen = "none" \/ \E p \in InCrit : InCrit = {p})

\* While a call stays in time.Sleep nothing else changes (bucket, seq),
\* returns or panics, or enters the critical section.
AloneWhileSleeping ==
    \A p \in Procs :
        (pc[p] = "sleeping" /\ pc'[p] = "sleeping") =>
            /\ mx /\ mx'
            /\ UNCHANGED <<bucket, seq, last>>
            /\ \A q \in Procs \ {p} : pc'[q] \notin Crit

\* C6: NextFID calls exclude each other on (bucket, seq), and the call that
\* waits for the next bucket keeps the lock through the wait.
C6_Mutex == []OneInCrit /\ [][OnlyInCrit /\ AloneWhileSleeping]_vars

\* One call sleeps with time still to wait while another is blocked in Lock.
C6_Witness ==
    \E p, q \in Procs :
        /\ p # q
        /\ pc[p] = "sleeping"
        /\ left[p] > 0
        /\ pc[q] = "lock"

\* C7: NewGen returns nil exactly when the epoch in effect is later than the
\* instant the generator's clock reports at construction.
C7_FutureEpoch == gen \in {"ok", "nil"} => (gen = "nil" <=> ahead)

\* NewGen with a GID option panics exactly when the argument is above
\* 2^G - 1, and otherwise the generator gets that gid.
GIDChecked ==
    gen = "none" =>
        \A o \in OptOrders, g \in GidArgs, e \in EpochArgs, t \in Times :
            (NewGen(o, g, e, t) /\ \E i \in DOMAIN o : o[i] = "GID") =>
                /\ (gen' = "gidpanic") <=> (g > Pow2(BitLenGID) - 1)
                /\ gen' # "gidpanic" => gid' = g

\* C8: the GID option panics for every gid above 2^G - 1 before a generator
\* exists and accepts every other gid; a generator's gid is in [0, 2^G - 1].
C8_GIDBounds ==
    /\ [](gen = "ok" => gid \in 0 .. Pow2(BitLenGID) - 1)
    /\ [](gen = "gidpanic" =>
            /\ last = NoOutcome
            /\ \A p \in Procs : pc[p] = "idle")
    /\ [][GIDChecked]_vars

\* The GID option has panicked.
C8_Witness == gen = "gidpanic"

\* C9: the mutex is locked only while a call is between Lock and Unlock, and
\* every call that leaves NextFID, by return or by panic, leaves it unlocked.
C9_Unlock ==
    /\ [](mx => InCrit # {})
    /\ [][\A p \in Procs : Finishes(p) => ~mx']_vars

\* After a call has panicked another call holds the lock.
C9_Witness ==
    /\ last.kind = "panic"
    /\ InCrit # {}

\* C10: DecodeFID of the ID composed from a triple within the field widths
\* gives back the triple, msb = 0 and the ID itself.
C10_RoundTrip ==
    dec.out # <<>> =>
        dec.out = [fid |-> dec.in[1] * Pow2(BitLenSeq + BitLenGID)
                           + dec.in[2] * Pow2(BitLenGID) + dec.in[3],
                   msb |-> 0,
                   tim |-> dec.in[1],
                   seq |-> dec.in[2],
                   gid |-> dec.in[3]]

\* The triple with every field at its maximum has been decoded.
C10_Witness ==
    /\ dec.out # <<>>
    /\ dec.in = <<Pow2(BitLenTim) - 1, Pow2(BitLenSeq) - 1,
                  Pow2(BitLenGID) - 1>>

(* ------------------------------- rate ---------------------------------- *)

\* A call that finds the sequence numbers of the generator's bucket used up,
\* the clock not being in a later bucket, returns nothing there: it goes on
\* to gen.sleep.
BlockedWhenFull ==
    \A p \in Procs :
        (pc[p] = "body" /\ seq = seqMax /\ pc'[p] # "body") =>
            \/ pc'[p] = "idle" /\ last'.cmp = 1
            \/ pc'[p] = "sleep" /\ last' = last /\ issued' = issued

\* The IDs returned with one bucket number at most 2^S, each with its seq
\* inside the field.
AtMostPerBucket ==
    last.kind = "id" =>
        /\ last.s \in 0 .. seqMax
        /\ issued \in 1 .. Pow2(BitLenSeq)

\* C11 as stated: at most 2^S IDs per bucket, seq within its field, and a
\* caller beyond that rate is blocked and then given an ID that is no
\* duplicate, never an error.
C11_AsStated ==
    /\ []AtMostPerBucket
    /\ [][/\ BlockedWhenFull
          /\ WaitedUntilStart
          /\ \A p \in Procs :
                (Finishes(p) /\ pc[p] = "sleeping") =>
                    /\ last'.kind = "id"
                    /\ last'.s = 0
                    /\ issued' = 1
                    /\ last.kind = "id" => last'.fid > last.fid]_vars

\* C11 amended: at most 2^S IDs per bucket, seq within its field, and a
\* caller beyond that rate is blocked and then given an ID that is no
\* duplicate; the only error it can be given is the time-limit panic, when
\* the bucket it waited for is not below 2^T.
C11_Rate ==
    /\ []AtMostPerBucket
    /\ [][/\ BlockedWhenFull
          /\ WaitedUntilStart
          /\ \A p \in Procs :
                (Finishes(p) /\ pc[p] = "sleeping") =>
                    IF bucket < Pow2(BitLenTim)
                    THEN /\ last'.kind = "id"
                         /\ last'.s = 0
                         /\ issued' = 1
                         /\ last.kind = "id" => last'.fid > last.fid
                    ELSE last'.kind = "panic"]_vars

\* A bucket has had all its 2^S IDs returned, and the caller after them has
\* been blocked and given the first ID of the next bucket.
C11_Witness ==
    /\ last.kind = "id"
    /\ last.waited
    /\ last.b >= 2
    /\ last.s = 0
    /\ issued = 1
    /\ phase = "over"

(* ------------------------------ NextSID -------------------------------- *)

\* A call of NextSID moves (bucket, seq) as lines 129-142 of NextFID do for
\* some reading of the clock, and what it returns is made of the ID NextFID
\* returns for that (bucket, seq).
SidAsFid ==
    \A p \in Procs :
        (via[p] = "sid" /\ pc[p] = "body" /\ pc'[p] # "body") =>
            /\ \E t \in Readings :
                  LET a == advance(bucket, seq, bucketsSince(t))
                  IN  /\ bucket' = a.bucket
                      /\ seq' = a.seq
                      /\ a.sleep <=> pc'[p] = "sleep"
            /\ (pc'[p] = "idle" /\ last'.kind = "id") =>
                  last'.fid = ComposeFID(bucket', seq', gid)

\* A string is returned by the calls of NextSID that do not panic and by no
\* other call; it is the encoding of the call's ID, and DecodeSID gives the
\* ID back.
SidDecodes ==
    /\ \A p \in Procs :
          Finishes(p) =>
              (last'.sid # <<>> <=> (via[p] = "sid" /\ last'.kind = "id"))
    /\ last.sid # <<>> =>
          /\ last.sid = Encode(last.fid)
          /\ DecodeSID(last.sid) = [val |-> last.fid, err |-> "nil"]

\* C14: NextSID changes (bucket, seq) as NextFID does, under the same lock,
\* and returns the base62 encoding of the ID, which DecodeSID turns back
\* into the ID; the IDs returned through interleaved NextSID and NextFID
\* calls are pairwise distinct: each is larger than the one before.
C14_NextSID ==
    /\ []OneInCrit
    /\ [][/\ SidAsFid
          /\ SidDecodes
          /\ OnlyInCrit
          /\ \A p \in Procs :
                (Finishes(p) /\ last.kind = "id") =>
                    (last'.kind = "id" /\ last'.fid > last.fid)
                    \/ last'.kind = "panic"]_vars

\* NextSID returned a string of two characters for an ID that followed
\* another ID of its bucket, while a caller of NextFID is inside its call.
C14_Witness ==
    /\ last.kind = "id"
    /\ Len(last.sid) >= 2
    /\ last.s >= 1
    /\ \E p \in Procs \ SidProcs : pc[p] # "idle"

(* ----------------------------- clock bucket ---------------------------- *)

\* C15: on the wall clock, which never goes backwards and which the sleep
\* follows, a returned ID's bucket is at most the clock's bucket at the
\* moment of the return: the clock has reached the start of that bucket.
\* It holds wherever the clock stood against the epoch at construction.
C15_NotAhead ==
    [][\A p \in Procs :
          (Finishes(p) /\ ~injected /\ last'.kind = "id") =>
              /\ last'.b <= bucketsSince(wall')
              /\ wall' >= epochns + last'.b * BucketLen]_vars

\* On the wall clock a call has waited out a full bucket and returned the
\* first ID of the next one at the very instant that bucket began.
C15_Witness ==
    /\ ~injected
    /\ ~ahead
    /\ last.kind = "id"
    /\ last.waited
    /\ last.b >= 2
    /\ wall = epochns + last.b * BucketLen
    /\ \A p \in Procs : pc[p] = "idle"

(* ---------------------------- sequence numbers ------------------------- *)

\* C16: the first ID returned with a bucket has seq = 0, and an ID (b, s)
\* with s > 0 comes immediately after the ID (b, s-1): within a bucket the
\* sequence numbers are 0, 1, 2, ... without a gap.
C16_GapFree ==
    /\ [](last.kind = "id" => issued = last.s + 1)
    /\ [][\A p \in Procs :
             (Finishes(p) /\ last'.kind = "id") =>
                 /\ last'.s = (IF last.kind = "id" /\ last.b = last'.b
                               THEN last.s + 1 ELSE 0)
                 /\ last'.s > 0 =>
                       /\ last.kind = "id"
                       /\ <<last.b, last.s>> = <<last'.b, last'.s - 1>>]_vars

\* After IDs of an earlier bucket, of which the last had a seq above 0, the
\* clock was found in a later bucket and the ID returned has seq = 0.
C16_Witness ==
    /\ phase = "later"
    /\ last.kind = "id"
    /\ last.cmp = 1
    /\ last.b >= 2
    /\ last.s = 0
    /\ issued = 1

(* ------------------------------ first ID ------------------------------- *)

\* The first call to end on a fresh generator: with the clock in a bucket
\* n >= 1 it ends without waiting, with the ID (n, 0) when n < 2^T; with
\* the clock in a bucket n <= 0 it ends after gen.sleep with the ID (1, 0).
FirstCall ==
    \A p \in Procs :
        (Finishes(p) /\ phase = "fresh") =>
            IF last'.cmp = 1
            THEN /\ pc[p] = "body"
                 /\ bucket = 0 /\ seq = seqMax
                 /\ ~last'.waited
                 /\ \E t \in Readings : bucketsSince(t) = last'.b
                 /\ last'.b >= 1
                 /\ last'.s = 0
                 /\ last'.kind = "id" <=> last'.b < Pow2(BitLenTim)
            ELSE /\ pc[p] = "sleeping"
                 /\ last'.waited
                 /\ last'.kind = "id"
                 /\ last'.b = 1
                 /\ last'.s = 0

\* C17: the first NextFID call on a fresh generator returns seq = 0 with
\* the clock's bucket when that is >= 1, and bucket 1 after the overflow
\* wait when the clock's bucket is <= 0; no ID has bucket 0.
C17_FirstID ==
    /\ [](last.kind = "id" => last.b >= 1)
    /\ [](phase = "fresh" <=> last.kind = "none")
    /\ [][FirstCall]_vars

\* The wall clock read the epoch's own bucket, 0, in the first call, which
\* waited for bucket 1 to begin and returned the ID (1, 0).
C17_Witness ==
    /\ ~injected
    /\ last.kind = "id"
    /\ last.waited
    /\ last.cmp = 0
    /\ last.b = 1
    /\ last.s = 0
    /\ wall = epochns + BucketLen

(* ------------------------------ frame ---------------------------------- *)

\* NewGen leaves the generator with the argument of the GID option, and
\* with DefaultGID when that option is not given.
GidFromOptions ==
    gen = "none" =>
        \A o \in OptOrders, g \in GidArgs, e \in EpochArgs, t \in Times :
            (NewGen(o, g, e, t) /\ gen' = "ok") =>
                gid' = (IF \E i \in DOMAIN o : o[i] = "GID" THEN g
                        ELSE DefaultGID)

\* Once the generator exists no step changes its generator ID, its epoch or
\* its clock; a call changes bucket and seq only.
OnlyBucketAndSeq ==
    gen = "ok" => UNCHANGED <<gen, gid, epoch, epochns, injected>>

\* C18: after construction NextFID changes bucket and seq only, never the
\* generator ID or the epoch instant, and the gid field of every returned ID
\* is the generator's gid, DefaultGID when the GID option was not given.
C18_Frame ==
    /\ [](last.kind = "id" => DecodeFID(last.fid).gid = gid)
    /\ [][GidFromOptions /\ OnlyBucketAndSeq]_vars

\* A generator constructed with the largest generator ID has returned IDs
\* of two buckets, all with that generator ID.
C18_Witness ==
    /\ gid = gidMax
    /\ last.kind = "id"
    /\ last.b >= 2
    /\ last.s >= 1
    /\ phase = "later"
    /\ DecodeFID(last.fid).gid = gidMax

(* ---------------------------- after a panic ---------------------------- *)

\* After a panic the generator's bucket is at or past 2^T and stays there.
StaysOverLimit ==
    last.kind = "panic" =>
        /\ bucket >= Pow2(BitLenTim)
        /\ bucket' >= bucket

\* A call of NextFID or NextSID that ends after a panic ends with a panic
\* and returns neither an ID nor a string.
PanicsAgain ==
    \A p \in Procs :
        (Finishes(p) /\ last.kind = "panic") =>
            /\ last'.kind = "panic"
            /\ last'.fid = 0
            /\ last'.sid = <<>>

\* C19: once a call has panicked with the time-limit error, every later
\* NextFID or NextSID call panics and none returns an ID, whatever the
\* clock reads.
C19_Permanent == [][StaysOverLimit /\ PanicsAgain]_vars

\* After the first panic another call has panicked on a clock reading a
\* bucket before the generator's, and a call of NextSID is under way.
C19_Witness ==
    /\ last.kind = "panic"
    /\ last.s >= 1
    /\ last.cmp = -1
    /\ \E p \in SidProcs : pc[p] = "body"

(* ------------------------------ progress ------------------------------- *)

\* A call that has ended returned an ID or panicked, and it panicked only
\* with the generator's bucket at or past 2^T.
EndsWithIdOrTimeLimit ==
    /\ last.kind \in {"none", "id", "panic"}
    /\ last.kind = "panic" => last.b >= Pow2(BitLenTim)
    /\ last.kind = "id" => last.b < Pow2(BitLenTim)

\* C20: with a fair lock and time passing, every NextFID call ends, by
\* returning an ID or by the time-limit panic; a call in the overflow wait
\* leaves it, and running out of sequence numbers is no error of its own.
C20_Completes ==
    /\ []EndsWithIdOrTimeLimit
    /\ \A p \in Procs : (pc[p] # "idle") ~> (pc[p] = "idle")

\* The overflow wait of one call has ended with the first ID of the next
\* bucket, and the caller that was waiting for the lock now holds it.
C20_Witness ==
    /\ last.kind = "id"
    /\ last.waited
    /\ issued = 1
    /\ last.b >= 2
    /\ \E p \in Procs : pc[p] = "body"
    /\ \E p \in Procs : pc[p] = "idle"

(* --------------------------- abort and epoch --------------------------- *)

\* C21: a NextFID call that ends in the time-limit panic does no blocking
\* wait first, also when the bucket came to 2^T by a sequence overflow in
\* bucket 2^T - 1: no call is inside time.Sleep with time still to wait
\* while the generator's bucket is at or past 2^T, from where line 144 can
\* only panic.
C21_ImmediateAbort ==
    \A p \in Procs :
        (pc[p] = "sleeping" /\ left[p] > 0) => bucket < Pow2(BitLenTim)

\* C22: after construction gen.epoch is the epoch instant in effect counted
\* in buckets, epochns / BucketLen, for the default epoch and for an epoch
\* given through the Epoch option.
C22_EpochInBuckets ==
    gen = "ok" => epoch = TruncDiv(epochns, BucketLen)

(* ------------------------------ base62 --------------------------------- *)

\* C12: Decode(Encode(v)) returns (v, nil) for every value v of the
\* unsigned word, and Encode(0) is "0".  Where line 32 makes the buffer one
\* longer than the digits of v the string is the digits after a "0": such
\* a string decodes to what the string after the "0" decodes to.
C12_RoundTrip ==
    /\ (cod.op = "enc" /\ cod.str # <<>>) =>
          /\ cod.v = 0 => cod.str = <<"0">>
          /\ cod.out # <<>> => cod.out = [val |-> cod.v, err |-> "nil"]
    /\ (cod.op = "dec" /\ cod.out # <<>> /\ cod.str # <<>>
                       /\ cod.str[1] = "0") =>
          cod.out = Decode(Tail(cod.str))

\* A value of three base62 digits has been encoded and decoded back.
C12_Witness ==
    /\ cod.op = "enc"
    /\ cod.v >= base * base
    /\ Len(cod.str) = 3
    /\ cod.out # <<>>
    /\ cod.out.val = cod.v

\* The characters of the 62-symbol alphabet.
Alphabet == {alpha[i] : i \in 1 .. Len(alpha)}

\* What C13 says of one result, of Decode or of DecodeSID, for the string
\* cod.str.
Refuses(res) ==
    IF \E i \in 1 .. Len(cod.str) : cod.str[i] \notin Alphabet
    THEN res = [val |-> 0, err |-> "ErrInvalidSID"]
    ELSE /\ res.err = "nil"
         /\ cod.str = <<>> => res.val = 0

\* C13: Decode, and DecodeSID with it, returns 0 and ErrInvalidSID for a
\* string with a character outside the alphabet at any position, and a nil
\* error for a string of alphabet characters; the empty string gives 0.
C13_InvalidInput ==
    cod.op = "dec" =>
        /\ cod.out # <<>> => Refuses(cod.out)
        /\ cod.fid # <<>> => Refuses(cod.fid)

\* A string whose last character only is outside the alphabet, after
\* characters that had accumulated a value, has been refused by Decode and
\* by DecodeSID.
C13_Witness ==
    /\ cod.op = "dec"
    /\ cod.out # <<>>
    /\ cod.fid # <<>>
    /\ Len(cod.str) >= 2
    /\ cod.str[1] \in Alphabet \ {"0"}
    /\ cod.str[Len(cod.str)] \notin Alphabet
    /\ cod.out.err = "ErrInvalidSID"
    /\ cod.fid.err = "ErrInvalidSID"

====
